---- MODULE Spec2Model ----
(***************************************************************************)
(* Model of address_book.py: the Field validators (Phone, Birthday), the   *)
(* Record, the AddressBook collection with get_upcoming_birthdays, and the *)
(* command handlers wrapped by input_error.                                *)
(*                                                                         *)
(* A Python str is a sequence of one-character strings.  A character that  *)
(* has no ASCII spelling is written as a token ("U+0661").  Optional[X] is *)
(* a sequence of length 0 (None) or 1.  The dict of a UserDict is an       *)
(* insertion-ordered sequence of [key, rec] entries.                       *)
(***************************************************************************)
EXTENDS Integers, Sequences, FiniteSets, TLC

VARIABLES book, call, ret

vars == <<book, call, ret>>

----------------------------------------------------------------------------
(* Characters and strings *)

AsciiDigits == {"0", "1", "2", "3", "4", "5", "6", "7", "8", "9"}

\* Characters for which str.isdigit() is true: the ASCII digits and every
\* other Unicode digit, here ARABIC-INDIC DIGIT ONE.
DigitChars == AsciiDigits \cup {"U+0661"}

\* Characters str.strip() removes (str.isspace()).
WhitespaceChars == {" ", "\t", "\n"}

RECURSIVE LStrip(_)
LStrip(s) ==
  IF s # <<>> /\ Head(s) \in WhitespaceChars THEN LStrip(Tail(s)) ELSE s

RECURSIVE RStrip(_)
RStrip(s) ==
  IF s # <<>> /\ s[Len(s)] \in WhitespaceChars
  THEN RStrip(SubSeq(s, 1, Len(s) - 1))
  ELSE s

\* str.strip()
Strip(s) == RStrip(LStrip(s))

\* str.isdigit(): non-empty and every character a digit
IsDigit(s) == s # <<>> /\ \A i \in 1..Len(s) : s[i] \in DigitChars

\* code points, for the comparison of strings
CodePoint(c) ==
  CASE c = "\t" -> 9
    [] c = "\n" -> 10
    [] c = " " -> 32
    [] c = "-" -> 45
    [] c = "." -> 46
    [] c = "0" -> 48
    [] c = "1" -> 49
    [] c = "2" -> 50
    [] c = "3" -> 51
    [] c = "4" -> 52
    [] c = "5" -> 53
    [] c = "6" -> 54
    [] c = "7" -> 55
    [] c = "8" -> 56
    [] c = "9" -> 57
    [] c = "A" -> 65
    [] c = "B" -> 66
    [] c = "a" -> 97
    [] c = "i" -> 105
    [] c = "l" -> 108
    [] c = "o" -> 111
    [] c = "U+0661" -> 1633

\* s < t for Python strings: lexicographic on code points
RECURSIVE StrLess(_, _)
StrLess(s, t) ==
  IF t = <<>> THEN FALSE
  ELSE IF s = <<>> THEN TRUE
  ELSE IF Head(s) = Head(t) THEN StrLess(Tail(s), Tail(t))
  ELSE CodePoint(Head(s)) < CodePoint(Head(t))

----------------------------------------------------------------------------
(* Results of calls: exc is the exception raised ("None" when the call      *)
(* returns), msg the exception's text or the string a handler returns, ok   *)
(* a bool return value, out a returned list.                                *)

Returned == [exc |-> "None", msg |-> "", ok |-> FALSE, out |-> <<>>]

RetBool(b) == [Returned EXCEPT !.ok = b]

RetMsg(m) == [Returned EXCEPT !.msg = m]

RetList(l) == [Returned EXCEPT !.out = l]

Raised(e, m) == [Returned EXCEPT !.exc = e, !.msg = m]

----------------------------------------------------------------------------
(* Phone *)

PhoneLen == 10

PhoneError == "Phone number must be 10 digits."

\* PhoneSetValue storing the argument as given, not the stripped string
PhoneSetValueRaw(cur, new_value) ==
  LET normalized == Strip(new_value)
  IN IF ~(IsDigit(normalized) /\ Len(normalized) = PhoneLen)
     THEN [res |-> Raised("ValueError", PhoneError), value |-> cur]
     ELSE [res |-> Returned, value |-> new_value]

\* PhoneSetValue without the length check
PhoneSetValueAnyLength(cur, new_value) ==
  LET normalized == Strip(new_value)
  IN IF ~IsDigit(normalized)
     THEN [res |-> Raised("ValueError", PhoneError), value |-> cur]
     ELSE [res |-> Returned, value |-> normalized]

\* Phone.value setter on a Phone whose _value is cur: the outcome and the
\* _value afterwards.  The check precedes the assignment.
PhoneSetValue(cur, new_value) ==
  LET normalized == Strip(new_value)
  IN IF ~(IsDigit(normalized) /\ Len(normalized) = PhoneLen)
     THEN [res |-> Raised("ValueError", PhoneError), value |-> cur]
     ELSE [res |-> Returned, value |-> normalized]

----------------------------------------------------------------------------
(* Record *)

\* Record.__init__
NewRecord(name) == [name |-> name, phones |-> <<>>, birthday |-> <<>>]

\* Record.find_phone: the index of the first phone equal to phone, 0 for None
FindPhone(rec, phone) ==
  IF \E i \in 1..Len(rec.phones) : rec.phones[i] = phone
  THEN CHOOSE i \in 1..Len(rec.phones) :
         /\ rec.phones[i] = phone
         /\ \A j \in 1..(i - 1) : rec.phones[j] # phone
  ELSE 0

\* Record.add_phone: Phone(phone) is built (and may raise) before the append
AddPhone(rec, phone) ==
  LET p == PhoneSetValue(<<>>, phone)
  IN IF p.res.exc # "None"
     THEN [res |-> p.res, rec |-> rec]
     ELSE [res |-> Returned,
           rec |-> [rec EXCEPT !.phones = Append(@, p.value)]]

\* Record.remove_phone
RemovePhone(rec, phone) ==
  LET i == FindPhone(rec, phone)
  IN IF i = 0
     THEN [res |-> RetBool(FALSE), rec |-> rec]
     ELSE [res |-> RetBool(TRUE),
           rec |-> [rec EXCEPT !.phones =
                      SubSeq(@, 1, i - 1) \o SubSeq(@, i + 1, Len(@))]]

\* EditPhone assigning the new value before it is validated
EditPhoneAssignFirst(rec, old_phone, new_phone) ==
  LET i == FindPhone(rec, old_phone)
  IN IF i = 0
     THEN [res |-> RetBool(FALSE), rec |-> rec]
     ELSE LET p == PhoneSetValue(rec.phones[i], new_phone)
          IN [res |-> IF p.res.exc # "None" THEN p.res ELSE RetBool(TRUE),
              rec |-> [rec EXCEPT !.phones[i] = Strip(new_phone)]]

\* Record.edit_phone
EditPhone(rec, old_phone, new_phone) ==
  LET i == FindPhone(rec, old_phone)
  IN IF i = 0
     THEN [res |-> RetBool(FALSE), rec |-> rec]
     ELSE LET p == PhoneSetValue(rec.phones[i], new_phone)
          IN [res |-> IF p.res.exc # "None" THEN p.res ELSE RetBool(TRUE),
              rec |-> [rec EXCEPT !.phones[i] = p.value]]

----------------------------------------------------------------------------
(* datetime.date: a date is [year, month, day]; the arithmetic is that of   *)
(* the standard library's proleptic Gregorian ordinal.                      *)

IsLeap(y) == y % 4 = 0 /\ (y % 100 # 0 \/ y % 400 = 0)

DaysInMonth(y, m) ==
  IF m = 2 THEN (IF IsLeap(y) THEN 29 ELSE 28)
  ELSE IF m \in {4, 6, 9, 11} THEN 30 ELSE 31

RECURSIVE DaysBeforeMonth(_, _)
DaysBeforeMonth(y, m) ==
  IF m = 1 THEN 0 ELSE DaysBeforeMonth(y, m - 1) + DaysInMonth(y, m - 1)

DaysBeforeYear(y) ==
  (y - 1) * 365 + ((y - 1) \div 4) - ((y - 1) \div 100) + ((y - 1) \div 400)

\* date(y, m, d): None (<<>>) stands for the ValueError of an impossible date
DateNew(y, m, d) ==
  IF y >= 1 /\ y <= 9999 /\ m >= 1 /\ m <= 12 /\ d >= 1 /\ d <= DaysInMonth(y, m)
  THEN <<[year |-> y, month |-> m, day |-> d]>>
  ELSE <<>>

\* date.toordinal()
ToOrdinal(dt) ==
  DaysBeforeYear(dt.year) + DaysBeforeMonth(dt.year, dt.month) + dt.day

\* the month and day of the n-th day (from 0) of year y
RECURSIVE MonthDay(_, _, _)
MonthDay(y, m, n) ==
  IF n < DaysInMonth(y, m)
  THEN [year |-> y, month |-> m, day |-> n + 1]
  ELSE MonthDay(y, m + 1, n - DaysInMonth(y, m))

\* date.fromordinal(n)
FromOrdinal(n) ==
  LET n0 == n - 1
      n400 == n0 \div 146097
      r400 == n0 % 146097
      n100 == r400 \div 36524
      r100 == r400 % 36524
      n4 == r100 \div 1461
      r4 == r100 % 1461
      n1 == r4 \div 365
      r1 == r4 % 365
      y == n400 * 400 + 1 + n100 * 100 + n4 * 4 + n1
  IN IF n1 = 4 \/ n100 = 4
     THEN [year |-> y - 1, month |-> 12, day |-> 31]
     ELSE MonthDay(y, 1, r1)

\* date + timedelta(days=k)
AddDays(dt, k) == FromOrdinal(ToOrdinal(dt) + k)

\* date.weekday(): Monday is 0, Saturday 5, Sunday 6
Weekday(dt) == (ToOrdinal(dt) + 6) % 7

\* a <= b on dates: the comparison of (year, month, day)
DateLE(a, b) ==
  \/ a.year < b.year
  \/ a.year = b.year /\ a.month < b.month
  \/ a.year = b.year /\ a.month = b.month /\ a.day <= b.day

DigitChar(n) == <<"0", "1", "2", "3", "4", "5", "6", "7", "8", "9">>[n + 1]

\* date.strftime("%Y-%m-%d")
StrfIso(dt) ==
  << DigitChar((dt.year \div 1000) % 10), DigitChar((dt.year \div 100) % 10),
     DigitChar((dt.year \div 10) % 10), DigitChar(dt.year % 10), "-",
     DigitChar(dt.month \div 10), DigitChar(dt.month % 10), "-",
     DigitChar(dt.day \div 10), DigitChar(dt.day % 10) >>

----------------------------------------------------------------------------
(* Birthday *)

BirthdayError == "Invalid date format. Use DD.MM.YYYY"

\* the fields of s between the "." separators
RECURSIVE SplitDots(_, _)
SplitDots(s, cur) ==
  IF s = <<>> THEN <<cur>>
  ELSE IF Head(s) = "." THEN <<cur>> \o SplitDots(Tail(s), <<>>)
  ELSE SplitDots(Tail(s), Append(cur, Head(s)))

DigitValue(c) == CodePoint(c) - 48

\* int() of a string of ASCII digits
RECURSIVE IntOf(_)
IntOf(s) ==
  IF s = <<>> THEN 0 ELSE 10 * IntOf(SubSeq(s, 1, Len(s) - 1)) + DigitValue(s[Len(s)])

IsAsciiDigits(s) == \A i \in 1..Len(s) : s[i] \in AsciiDigits

\* datetime.strptime(raw, "%d.%m.%Y").date(): %d and %m take one or two
\* digits, %Y exactly four; None (<<>>) stands for the ValueError.
Strptime(raw) ==
  LET f == SplitDots(raw, <<>>)
  IN IF /\ Len(f) = 3
        /\ Len(f[1]) \in {1, 2} /\ IsAsciiDigits(f[1])
        /\ Len(f[2]) \in {1, 2} /\ IsAsciiDigits(f[2])
        /\ Len(f[3]) = 4 /\ IsAsciiDigits(f[3])
        /\ IntOf(f[1]) \in 1..31
        /\ IntOf(f[2]) \in 1..12
     THEN DateNew(IntOf(f[3]), IntOf(f[2]), IntOf(f[1]))
     ELSE <<>>

\* Birthday.value setter on a Record whose birthday is cur
BirthdaySetValue(cur, new_value) ==
  LET raw == Strip(new_value)
      parsed == Strptime(raw)
  IN IF parsed = <<>>
     THEN [res |-> Raised("ValueError", BirthdayError), value |-> cur]
     ELSE [res |-> Returned, value |-> parsed]

\* Record.add_birthday
AddBirthdayRec(rec, birthday) ==
  LET b == BirthdaySetValue(rec.birthday, birthday)
  IN [res |-> b.res, rec |-> [rec EXCEPT !.birthday = b.value]]

----------------------------------------------------------------------------
(* AddressBook *)

\* the position of key in the dict, 0 when absent
KeyIndex(b, key) ==
  IF \E i \in 1..Len(b) : b[i].key = key
  THEN CHOOSE i \in 1..Len(b) : b[i].key = key
  ELSE 0

\* self.data[key] = record: an existing key keeps its position
DictSet(b, key, record) ==
  IF KeyIndex(b, key) = 0
  THEN Append(b, [key |-> key, rec |-> record])
  ELSE [b EXCEPT ![KeyIndex(b, key)].rec = record]

\* AddRecord appending a new entry even when the name is present
AddRecordAppend(b, record) == Append(b, [key |-> record.name, rec |-> record])

\* AddressBook.add_record
AddRecord(b, record) == DictSet(b, record.name, record)

\* AddressBook.find: None (<<>>) or the record
Find(b, name) ==
  IF KeyIndex(b, name) = 0 THEN <<>> ELSE <<b[KeyIndex(b, name)].rec>>

\* AddressBook.delete
Delete(b, name) ==
  LET i == KeyIndex(b, name)
  IN IF i # 0
     THEN [res |-> RetBool(TRUE),
           book |-> SubSeq(b, 1, i - 1) \o SubSeq(b, i + 1, Len(b))]
     ELSE [res |-> RetBool(FALSE), book |-> b]

\* A Record is an object the dict refers to: a method that mutates the
\* record found under name changes it in place.
OnRecord(b, name, r) ==
  [res |-> r.res, book |-> [b EXCEPT ![KeyIndex(b, name)].rec = r.rec]]

----------------------------------------------------------------------------
(* AddressBook.get_upcoming_birthdays *)

WindowDays == 7

\* the try/except around date(year, month, day): this year's anniversary,
\* 28 February for a 29 February birthday, None (<<>>) for `continue`
BdayThisYear(today, bday) ==
  LET d == DateNew(today.year, bday.month, bday.day)
  IN IF d # <<>> THEN d
     ELSE IF bday.month = 2 /\ bday.day = 29
          THEN DateNew(today.year, 2, 28)
          ELSE <<>>

\* the candidate: this year's anniversary when it is not before today,
\* otherwise date(year + 1, month, day), with 28 for a 29 February birthday;
\* None (<<>>) stands for the ValueError of that constructor
Candidate(today, bday, bday_this_year) ==
  IF DateLE(today, bday_this_year)
  THEN <<bday_this_year>>
  ELSE DateNew(today.year + 1, bday.month,
               IF ~(bday.month = 2 /\ bday.day = 29) THEN bday.day ELSE 28)

\* InWindow with the end of the window excluded
InWindowExclusive(today, candidate) ==
  /\ DateLE(today, candidate)
  /\ DateLE(candidate, AddDays(today, WindowDays))
  /\ candidate # AddDays(today, WindowDays)

\* today <= candidate <= end_date
InWindow(today, candidate) ==
  DateLE(today, candidate) /\ DateLE(candidate, AddDays(today, WindowDays))

\* Congratulation moving a Saturday by one day only
CongratulationOneDay(candidate) ==
  IF Weekday(candidate) \in {5, 6} THEN AddDays(candidate, 1) ELSE candidate

\* the weekend shift of the congratulation date
Congratulation(candidate) ==
  IF Weekday(candidate) = 5 THEN AddDays(candidate, 2)
  ELSE IF Weekday(candidate) = 6 THEN AddDays(candidate, 1)
  ELSE candidate

\* KeyLess on the congratulation date alone
KeyLessDateOnly(x, y) == StrLess(x.congratulation_date, y.congratulation_date)

\* the sort key (congratulation_date, name): x sorts before y
KeyLess(x, y) ==
  \/ StrLess(x.congratulation_date, y.congratulation_date)
  \/ /\ x.congratulation_date = y.congratulation_date
     /\ StrLess(x.name, y.name)

\* list.sort(key=...): a stable insertion of x into the sorted list l
RECURSIVE Insert(_, _)
Insert(l, x) ==
  IF l = <<>> THEN <<x>>
  ELSE IF KeyLess(x, Head(l)) THEN <<x>> \o l
  ELSE <<Head(l)>> \o Insert(Tail(l), x)

RECURSIVE SortUpcoming(_)
SortUpcoming(l) ==
  IF l = <<>> THEN <<>>
  ELSE Insert(SortUpcoming(SubSeq(l, 1, Len(l) - 1)), l[Len(l)])

\* the body of the loop for one record: what it appends (a list of 0 or 1
\* entries) and whether it raises
LoopBody(today, rec) ==
  IF rec.birthday = <<>> THEN [raised |-> FALSE, add |-> <<>>]
  ELSE LET bday == rec.birthday[1]
           bty == BdayThisYear(today, bday)
       IN IF bty = <<>> THEN [raised |-> FALSE, add |-> <<>>]
          ELSE LET c == Candidate(today, bday, bty[1])
               IN IF c = <<>> THEN [raised |-> TRUE, add |-> <<>>]
                  ELSE IF InWindow(today, c[1])
                       THEN [raised |-> FALSE,
                             add |-> << [name |-> rec.name,
                                         congratulation_date |->
                                           StrfIso(Congratulation(c[1]))] >>]
                       ELSE [raised |-> FALSE, add |-> <<>>]

\* the loop over self.data.values(), in insertion order, from entry i
RECURSIVE Loop(_, _, _, _)
Loop(today, b, i, upcoming) ==
  IF i > Len(b) THEN [raised |-> FALSE, upcoming |-> upcoming]
  ELSE LET r == LoopBody(today, b[i].rec)
       IN IF r.raised THEN [raised |-> TRUE, upcoming |-> upcoming]
          ELSE Loop(today, b, i + 1, upcoming \o r.add)

\* AddressBook.get_upcoming_birthdays with date.today() = today
GetUpcomingBirthdays(b, today) ==
  LET l == Loop(today, b, 1, <<>>)
  IN IF l.raised
     THEN Raised("ValueError", "day is out of range for month")
     ELSE RetList(SortUpcoming(l.upcoming))

----------------------------------------------------------------------------
(* Command handlers *)

\* `a, b, *_ = args` with fewer than n values in args
UnpackError(n, got) ==
  Raised("ValueError",
         "not enough values to unpack (expected at least " \o ToString(n)
           \o ", got " \o ToString(got) \o ")")

\* the input_error wrapper: what the handler returns for the result r
InputError(r) ==
  IF r.exc = "None" THEN r
  ELSE IF r.exc = "ValueError" THEN RetMsg(r.msg)
  ELSE IF r.exc = "KeyError" THEN RetMsg("Contact not found.")
  ELSE IF r.exc = "IndexError" THEN RetMsg("Not enough arguments.")
  ELSE RetMsg("An unexpected error occurred.")

\* add_contact, before the wrapper
AddContactBody(args, b) ==
  IF Len(args) < 2 THEN [res |-> UnpackError(2, Len(args)), book |-> b]
  ELSE LET name == args[1]
           phone == args[2]
           found == Find(b, name)
           b1 == IF found = <<>> THEN AddRecord(b, NewRecord(name)) ELSE b
           message == IF found = <<>> THEN "Contact added." ELSE "Contact updated."
           record == Find(b1, name)[1]
       IN IF phone # <<>>
          THEN LET r == OnRecord(b1, name, AddPhone(record, phone))
               IN IF r.res.exc # "None" THEN r
                  ELSE [res |-> RetMsg(message), book |-> r.book]
          ELSE [res |-> RetMsg(message), book |-> b1]

AddContact(args, b) ==
  [res |-> InputError(AddContactBody(args, b).res),
   book |-> AddContactBody(args, b).book]

\* change_phone, before the wrapper
ChangePhoneBody(args, b) ==
  IF Len(args) < 3 THEN [res |-> UnpackError(3, Len(args)), book |-> b]
  ELSE LET name == args[1]
           found == Find(b, name)
       IN IF found = <<>> THEN [res |-> RetMsg("Contact not found."), book |-> b]
          ELSE LET r == OnRecord(b, name, EditPhone(found[1], args[2], args[3]))
               IN IF r.res.exc # "None" THEN r
                  ELSE IF r.res.ok
                       THEN [res |-> RetMsg("Phone updated."), book |-> r.book]
                       ELSE [res |-> RetMsg("Old phone not found."), book |-> r.book]

ChangePhone(args, b) ==
  [res |-> InputError(ChangePhoneBody(args, b).res),
   book |-> ChangePhoneBody(args, b).book]

\* ", ".join(p.value for p in phones)
RECURSIVE JoinPhones(_)
JoinPhones(phones) ==
  IF Len(phones) = 1 THEN phones[1]
  ELSE phones[1] \o <<",", " ">> \o JoinPhones(Tail(phones))

\* show_phones: the phones come back in out, a message in msg
ShowPhonesBody(args, b) ==
  IF Len(args) < 1 THEN UnpackError(1, Len(args))
  ELSE LET found == Find(b, args[1])
       IN IF found = <<>> THEN RetMsg("Contact not found.")
          ELSE IF found[1].phones = <<>> THEN RetMsg("No phones.")
          ELSE RetList(JoinPhones(found[1].phones))

ShowPhones(args, b) == [res |-> InputError(ShowPhonesBody(args, b)), book |-> b]

\* add_birthday, before the wrapper
AddBirthdayBody(args, b) ==
  IF Len(args) < 2 THEN [res |-> UnpackError(2, Len(args)), book |-> b]
  ELSE LET name == args[1]
           found == Find(b, name)
       IN IF found = <<>> THEN [res |-> RetMsg("Contact not found."), book |-> b]
          ELSE LET r == OnRecord(b, name, AddBirthdayRec(found[1], args[2]))
               IN IF r.res.exc # "None" THEN r
                  ELSE [res |-> RetMsg("Birthday added."), book |-> r.book]

AddBirthday(args, b) ==
  [res |-> InputError(AddBirthdayBody(args, b).res),
   book |-> AddBirthdayBody(args, b).book]

\* date.strftime("%d.%m.%Y")
StrfDmy(dt) ==
  << DigitChar(dt.day \div 10), DigitChar(dt.day % 10), ".",
     DigitChar(dt.month \div 10), DigitChar(dt.month % 10), ".",
     DigitChar((dt.year \div 1000) % 10), DigitChar((dt.year \div 100) % 10),
     DigitChar((dt.year \div 10) % 10), DigitChar(dt.year % 10) >>

\* show_birthday: the formatted birthday comes back in out, a message in msg
ShowBirthdayBody(args, b) ==
  IF Len(args) < 1 THEN UnpackError(1, Len(args))
  ELSE LET found == Find(b, args[1])
       IN IF found = <<>> THEN RetMsg("Contact not found.")
          ELSE IF found[1].birthday = <<>> THEN RetMsg("Birthday not set.")
          ELSE RetList(StrfDmy(found[1].birthday[1]))

ShowBirthday(args, b) == [res |-> InputError(ShowBirthdayBody(args, b)), book |-> b]

----------------------------------------------------------------------------
(* Inputs *)

MaxPhones == 2

MaxBook == 2

NameAl == <<"A", "l">>

NameAli == <<"A", "l", "i">>

NameBo == <<"B", "o">>

Phone1 == <<"1", "2", "3", "4", "5", "6", "7", "8", "9", "0">>

\* ten non-ASCII digits
PhoneArabic == [i \in 1..10 |-> "U+0661"]

\* Phone1 between whitespace
PhonePadded == <<" ">> \o Phone1 \o <<"\t">>

\* nine digits
PhoneShort == <<"1", "2", "3", "4", "5", "6", "7", "8", "9">>

\* ten characters, one of them a letter
PhoneAlpha == <<"1", "2", "3", "4", "5", "6", "7", "8", "9", "a">>

PhoneInputs == {Phone1, PhoneArabic, PhonePadded, PhoneShort, PhoneAlpha}

\* the old_phone arguments tried
OldPhoneInputs == {Phone1, PhoneArabic, PhonePadded}

ContactNames == {NameAl, NameBo}

BirthdayNames == {NameAl, NameAli, NameBo}

BdayLeap == <<"2", "9", ".", "0", "2", ".", "1", "9", "9", "6">>

BdayJan6 == <<"0", "6", ".", "0", "1", ".", "1", "9", "9", "0">>

BdayJan7 == <<"0", "7", ".", "0", "1", ".", "1", "9", "8", "5">>

BdayJan1 == <<"0", "1", ".", "0", "1", ".", "2", "0", "0", "0">>

BdayDec31 == <<"3", "1", ".", "1", "2", ".", "1", "9", "9", "9">>

\* 31 February
BdayImpossible == <<"3", "1", ".", "0", "2", ".", "2", "0", "2", "0">>

\* not DD.MM.YYYY
BdayMalformed == <<"2", "0", "2", "0", "-", "0", "1", "-", "0", "6">>

BirthdayInputs ==
  {BdayLeap, BdayJan6, BdayJan7, BdayJan1, BdayDec31, BdayImpossible,
   BdayMalformed}

Day(y, m, d) == [year |-> y, month |-> m, day |-> d]

\* the values of date.today() tried
Todays ==
  { Day(2024, 1, 1), Day(2024, 1, 2), Day(2023, 12, 29), Day(2023, 12, 30),
    Day(2025, 2, 20), Day(2025, 2, 21), Day(2025, 2, 24), Day(2024, 2, 26),
    Day(2024, 2, 29), Day(2023, 3, 1), Day(2025, 3, 1) }

\* the argument lists of at most n arguments: a name, then values of vals
ArgLists(names, vals, n) ==
  {<<>>} \cup {<<nm>> : nm \in names}
    \cup (IF n >= 2 THEN {<<nm, v>> : nm \in names, v \in vals} ELSE {})
    \cup (IF n >= 3
          THEN {<<nm, o, v>> : nm \in names, o \in OldPhoneInputs, v \in vals}
          ELSE {})

----------------------------------------------------------------------------
(* The state machine: book is the AddressBook, call the last call made     *)
(* (its operation, its arguments, the date.today() it read) and ret what    *)
(* it returned or raised.                                                   *)

NoCall == [op |-> "init", args |-> <<>>, today |-> <<>>]

Init == book = <<>> /\ call = NoCall /\ ret = Returned

\* the model's bounds on the collection
Bounded(b) ==
  /\ Len(b) <= MaxBook
  /\ \A i \in 1..Len(b) : Len(b[i].rec.phones) <= MaxPhones

\* a call returned or raised r.res and left the collection r.book
Step(r) == Bounded(r.book) /\ book' = r.book /\ ret' = r.res

Called(op, args) == [op |-> op, args |-> args, today |-> <<>>]

\* record.add_phone(phone) on the record found under name
AddPhoneCall ==
  \E name \in ContactNames, phone \in PhoneInputs :
    /\ Find(book, name) # <<>>
    /\ Step(OnRecord(book, name, AddPhone(Find(book, name)[1], phone)))
    /\ call' = Called("add_phone", <<name, phone>>)

RemovePhoneCall ==
  \E name \in ContactNames, phone \in PhoneInputs :
    /\ Find(book, name) # <<>>
    /\ Step(OnRecord(book, name, RemovePhone(Find(book, name)[1], phone)))
    /\ call' = Called("remove_phone", <<name, phone>>)

EditPhoneCall ==
  \E name \in ContactNames, old \in OldPhoneInputs, new \in PhoneInputs :
    /\ Find(book, name) # <<>>
    /\ Step(OnRecord(book, name, EditPhone(Find(book, name)[1], old, new)))
    /\ call' = Called("edit_phone", <<name, old, new>>)

\* book.add_record(Record(name))
AddRecordCall(names) ==
  \E name \in names :
    /\ Step([res |-> Returned, book |-> AddRecord(book, NewRecord(name))])
    /\ call' = Called("add_record", <<name>>)

DeleteCall(names) ==
  \E name \in names :
    /\ Step(Delete(book, name))
    /\ call' = Called("delete", <<name>>)

\* add_contact(args, book); "" is the phone that is not added
AddContactCmd ==
  \E args \in ArgLists(ContactNames, PhoneInputs \cup {<<>>}, 2) :
    /\ Step(AddContact(args, book))
    /\ call' = Called("add", args)

ChangePhoneCmd ==
  \E args \in ArgLists(ContactNames, {PhoneArabic, PhonePadded, PhoneShort}, 3) :
    /\ Step(ChangePhone(args, book))
    /\ call' = Called("change", args)

ShowPhonesCmd ==
  \E args \in ArgLists(ContactNames, {}, 1) :
    /\ Step(ShowPhones(args, book))
    /\ call' = Called("phone", args)

AddBirthdayCmd(names, birthdays) ==
  \E args \in ArgLists(names, birthdays, 2) :
    /\ Step(AddBirthday(args, book))
    /\ call' = Called("add-birthday", args)

ShowBirthdayCmd ==
  \E args \in ArgLists(ContactNames, {}, 1) :
    /\ Step(ShowBirthday(args, book))
    /\ call' = Called("show-birthday", args)

\* book.get_upcoming_birthdays() on a day today
UpcomingCall ==
  \E today \in Todays :
    /\ book' = book
    /\ ret' = GetUpcomingBirthdays(book, today)
    /\ call' = [op |-> "get_upcoming_birthdays", args |-> <<>>, today |-> <<today>>]

\* the Record and AddressBook methods, and the add command
Next ==
  \/ AddPhoneCall
  \/ RemovePhoneCall
  \/ EditPhoneCall
  \/ AddRecordCall(ContactNames)
  \/ DeleteCall(ContactNames)
  \/ AddContactCmd

Spec == Init /\ [][Next]_vars

\* the command handlers
NextCommands ==
  \/ AddContactCmd
  \/ ChangePhoneCmd
  \/ ShowPhonesCmd
  \/ AddBirthdayCmd(ContactNames, {BdayLeap, BdayImpossible})
  \/ ShowBirthdayCmd

SpecCommands == Init /\ [][NextCommands]_vars

\* birthdays: the collection is filled and queried
NextBirthdays ==
  \/ AddRecordCall(BirthdayNames)
  \/ DeleteCall(BirthdayNames)
  \/ AddBirthdayCmd(BirthdayNames, BirthdayInputs)
  \/ UpcomingCall

SpecBirthdays == Init /\ [][NextBirthdays]_vars

----------------------------------------------------------------------------
(* Properties of the phones, the records and the collection *)

\* the names in the collection
Keys(b) == {b[i].key : i \in 1..Len(b)}

\* s is ten digits
TenDigits(s) == Len(s) = 10 /\ \A k \in 1..Len(s) : s[k] \in DigitChars

\* s is ten digits between leading and trailing whitespace
ValidPhoneInput(s) ==
  \E i \in 1..Len(s), j \in 1..Len(s) :
    /\ i <= j
    /\ TenDigits(SubSeq(s, i, j))
    /\ \A k \in 1..Len(s) : (k < i \/ k > j) => s[k] \in WhitespaceChars

\* the phones stored under name, <<>> when the name is absent
PhonesOf(b, name) ==
  IF name \in Keys(b) THEN b[KeyIndex(b, name)].rec.phones ELSE <<>>

\* C1: after any sequence of add_phone, edit_phone and remove_phone calls,
\* the failing ones included, every phone stored in a record is a string of
\* exactly 10 digits.
C1_StoredPhonesAreTenDigits ==
  \A i \in 1..Len(book) :
    \A j \in 1..Len(book[i].rec.phones) : TenDigits(book[i].rec.phones[j])

\* a failed edit_phone on a record that holds two phones
C1_Witness ==
  /\ call.op = "edit_phone"
  /\ ret.exc = "ValueError"
  /\ Len(PhonesOf(book, call.args[1])) >= 2

\* C2: edit_phone(old, new) with old a stored phone and new not a valid
\* 10-digit phone raises the validation error and leaves the phone list,
\* and so the collection, as it was.
C2_FailedEditChangesNothing ==
  [][ ( /\ call'.op = "edit_phone"
        /\ \E k \in 1..Len(PhonesOf(book, call'.args[1])) :
             PhonesOf(book, call'.args[1])[k] = call'.args[2]
        /\ ~ValidPhoneInput(call'.args[3]) )
      => ( /\ ret'.exc = "ValueError"
           /\ ret'.msg = PhoneError
           /\ book' = book ) ]_vars

\* edit_phone raised for a stored old phone and an invalid new one
C2_Witness ==
  /\ call.op = "edit_phone"
  /\ ret.exc = "ValueError"
  /\ \E k \in 1..Len(PhonesOf(book, call.args[1])) :
       PhonesOf(book, call.args[1])[k] = call.args[2]
  /\ ~ValidPhoneInput(call.args[3])

\* C7 as stated: add_phone(s) fails with "Phone number must be 10 digits."
\* for every s that contains a non-digit character or whose length is not 10.
C7_AsStated ==
  ( /\ call.op = "add_phone"
    /\ \/ Len(call.args[2]) # 10
       \/ \E k \in 1..Len(call.args[2]) : call.args[2][k] \notin DigitChars )
  => (ret.exc = "ValueError" /\ ret.msg = PhoneError)

\* C7 amended: add_phone(s) fails with "Phone number must be 10 digits." and
\* stores nothing for every s that, with its leading and trailing whitespace
\* stripped, contains a non-digit character or has a length other than 10.
C7_InvalidPhoneIsRejected ==
  [][ (call'.op = "add_phone" /\ ~ValidPhoneInput(call'.args[2]))
      => ( /\ ret'.exc = "ValueError"
           /\ ret'.msg = PhoneError
           /\ book' = book ) ]_vars

\* add_phone rejected a string of length 10 that holds a letter
C7_Witness ==
  /\ call.op = "add_phone"
  /\ Len(call.args[2]) = 10
  /\ ~ValidPhoneInput(call.args[2])
  /\ ret.exc = "ValueError"

\* the entries of b other than the one under name
Others(b, name) == {b[i] : i \in {j \in 1..Len(b) : b[j].key # name}}

\* C9: every key maps to a record of that name, one entry per name;
\* add_record with a name already present replaces the entry and does not
\* fail; delete returns true and removes the entry of a present name, and
\* returns false and changes nothing for an absent name.
C9_KeysAreNames ==
  [][ /\ \A i \in 1..Len(book') : book'[i].key = book'[i].rec.name
      /\ \A i, j \in 1..Len(book') : book'[i].key = book'[j].key => i = j
      /\ call'.op = "add_record" =>
           /\ ret'.exc = "None"
           /\ Keys(book') = Keys(book) \cup {call'.args[1]}
           /\ Find(book', call'.args[1]) = <<NewRecord(call'.args[1])>>
           /\ Others(book', call'.args[1]) = Others(book, call'.args[1])
      /\ call'.op = "delete" =>
           IF call'.args[1] \in Keys(book)
           THEN /\ ret'.ok
                /\ Keys(book') = Keys(book) \ {call'.args[1]}
                /\ Others(book', call'.args[1]) = Others(book, call'.args[1])
           ELSE ~ret'.ok /\ book' = book ]_vars

\* add_record has replaced the first of two entries: a new name would have
\* been put last
C9_Witness ==
  /\ call.op = "add_record"
  /\ Len(book) = 2
  /\ book[1].key = call.args[1]
  /\ book[1].rec = NewRecord(call.args[1])

\* the arguments each handler takes
Required(op) ==
  CASE op = "add" -> 2
    [] op = "change" -> 3
    [] op = "phone" -> 1
    [] op = "add-birthday" -> 2
    [] op = "show-birthday" -> 1
    [] OTHER -> 0

\* C8: a handler (add, change, phone, add-birthday, show-birthday) called
\* with fewer arguments than it takes returns "Not enough arguments." and
\* leaves the collection unchanged.
C8_NotEnoughArguments ==
  [][ (Len(call'.args) < Required(call'.op))
      => (ret'.msg = "Not enough arguments." /\ book' = book) ]_vars

\* C10: when the add command is rejected because its phone is not a valid
\* 10-digit phone, the collection holds the same names, and every record the
\* same phones, as before.
C10_RejectedAddChangesNothing ==
  [][ (call'.op = "add" /\ ret'.msg = PhoneError)
      => ( /\ Keys(book') = Keys(book)
           /\ \A n \in Keys(book) : PhonesOf(book', n) = PhonesOf(book, n) ) ]_vars

----------------------------------------------------------------------------
(* Properties of get_upcoming_birthdays *)

Queried == call.op = "get_upcoming_birthdays"

\* the anniversary of bday in year y: 28 February for a 29 February
\* birthday when y is not a leap year
Anniversary(y, bday) ==
  IF bday.month = 2 /\ bday.day = 29 /\ ~IsLeap(y)
  THEN Day(y, 2, 28)
  ELSE Day(y, bday.month, bday.day)

\* the next anniversary of bday that is not before today
NextAnniversary(today, bday) ==
  IF ToOrdinal(Anniversary(today.year, bday)) >= ToOrdinal(today)
  THEN Anniversary(today.year, bday)
  ELSE Anniversary(today.year + 1, bday)

\* the day number of the date written YYYY-MM-DD
IsoOrdinal(s) ==
  ToOrdinal(Day(IntOf(SubSeq(s, 1, 4)), IntOf(SubSeq(s, 6, 7)),
                IntOf(SubSeq(s, 9, 10))))

\* 1 January 2024 was a Monday: the days since Monday of day number n
SinceMonday(n) == (n - ToOrdinal(Day(2024, 1, 1))) % 7

\* the entries of the result for name
EntriesFor(name) == {k \in 1..Len(ret.out) : ret.out[k].name = name}

\* the record is due: it has a birthday whose next anniversary is within
\* the 7 days from today
Due(rec, today) ==
  /\ rec.birthday # <<>>
  /\ ToOrdinal(NextAnniversary(today, rec.birthday[1])) >= ToOrdinal(today)
  /\ ToOrdinal(NextAnniversary(today, rec.birthday[1])) <= ToOrdinal(today) + 7

\* C3: the query does not raise, and yields exactly one entry for a record
\* that has a birthday whose candidate date c satisfies
\* today <= c <= today + 7 days, and none for any other record.
C3_EntryIffInWindow ==
  Queried =>
    /\ ret.exc = "None"
    /\ \A k \in 1..Len(ret.out) : ret.out[k].name \in Keys(book)
    /\ \A i \in 1..Len(book) :
         Cardinality(EntriesFor(book[i].key)) =
           (IF Due(book[i].rec, call.today[1]) THEN 1 ELSE 0)

\* a query that emitted a record whose candidate is today + 7 days, over a
\* collection that also holds a record it did not emit
C3_Witness ==
  /\ Queried
  /\ \E i \in 1..Len(book) :
       /\ book[i].rec.birthday # <<>>
       /\ ToOrdinal(NextAnniversary(call.today[1], book[i].rec.birthday[1]))
            = ToOrdinal(call.today[1]) + 7
       /\ EntriesFor(book[i].key) # {}
  /\ \E i \in 1..Len(book) : EntriesFor(book[i].key) = {}

\* C4: for a 29 February birthday the candidate date is 28 February when
\* the target year is not a leap year and 29 February when it is, and the
\* record is not skipped.
C4_LeapDayCandidate ==
  Queried =>
    \A i \in 1..Len(book) :
      LET rec == book[i].rec
          today == call.today[1]
      IN (rec.birthday # <<>> /\ rec.birthday[1].month = 2 /\ rec.birthday[1].day = 29)
         => LET bty == BdayThisYear(today, rec.birthday[1])
                c == Candidate(today, rec.birthday[1], bty[1])
            IN /\ bty # <<>>
               /\ c # <<>>
               /\ c[1].month = 2
               /\ c[1].day = (IF IsLeap(c[1].year) THEN 29 ELSE 28)

\* C5: the congratulation date of every entry is its candidate date plus 2
\* days for a Saturday, plus 1 day for a Sunday, the candidate date
\* otherwise, and is never a Saturday or a Sunday.
C5_WeekendShift ==
  Queried =>
    \A k \in 1..Len(ret.out) :
      LET e == ret.out[k]
          rec == book[KeyIndex(book, e.name)].rec
          c == ToOrdinal(NextAnniversary(call.today[1], rec.birthday[1]))
      IN /\ IsoOrdinal(e.congratulation_date) =
              c + (IF SinceMonday(c) = 5 THEN 2
                   ELSE IF SinceMonday(c) = 6 THEN 1 ELSE 0)
         /\ SinceMonday(IsoOrdinal(e.congratulation_date)) \notin {5, 6}

\* an entry whose congratulation date is after today + 7 days
C5_Witness ==
  /\ Queried
  /\ \E k \in 1..Len(ret.out) :
       IsoOrdinal(ret.out[k].congratulation_date) > ToOrdinal(call.today[1]) + 7

\* the name a comes before the name b, or is b: at the first place where
\* they differ a has the smaller character, or a ends there
NameBefore(a, b) ==
  \/ a = b
  \/ \E k \in 1..(Len(b)) :
       /\ \A j \in 1..(k - 1) : j <= Len(a) /\ a[j] = b[j]
       /\ \/ k = Len(a) + 1
          \/ k <= Len(a) /\ CodePoint(a[k]) < CodePoint(b[k])

\* C6: the result is sorted by (congratulation date, name): of two
\* consecutive entries the earlier date is first, and entries of one date
\* are in the order of their names, whatever the order of insertion.
C6_SortedByDateThenName ==
  Queried =>
    \A k \in 1..(Len(ret.out) - 1) :
      LET x == ret.out[k]
          y == ret.out[k + 1]
      IN \/ IsoOrdinal(x.congratulation_date) < IsoOrdinal(y.congratulation_date)
         \/ /\ IsoOrdinal(x.congratulation_date) = IsoOrdinal(y.congratulation_date)
            /\ NameBefore(x.name, y.name)

\* two entries of one date, the first of them inserted after the second
C6_Witness ==
  /\ Queried
  /\ Len(ret.out) = 2
  /\ ret.out[1].congratulation_date = ret.out[2].congratulation_date
  /\ KeyIndex(book, ret.out[1].name) > KeyIndex(book, ret.out[2].name)

====
